---- MODULE Spec2Model ----
(***************************************************************************)
(* data-duper: per-column method selection (duper/analysis.py) and the     *)
(* value generators (duper/generator/*.py, duper/helper.py).               *)
(*                                                                         *)
(* Values are records [t, v, s]: t is the kind of the value, v its number  *)
(* (numbers are counted in units of 1/Unit, datetimes in ticks) and s its  *)
(* characters (text).  NaN and NaT are the two missing markers.            *)
(* Rationals (rates, breakpoints, drawn uniforms) are pairs <<num, den>>.  *)
(***************************************************************************)
EXTENDS Integers, Sequences, FiniteSets, TLC

VARIABLES data, threshold, chosen, gen, out, res, duper, pc

vars == <<data, threshold, chosen, gen, out, res, duper, pc>>

(* ------------------------------ bounds --------------------------------- *)

\* longest column handed to the selector
MaxLen == 4

\* longest array handed to a function of helper.py
MaxArr == 3

\* longest column a generator is fitted from (the columns of the tests apart)
MaxFit == 3

\* largest size asked of make
MaxSize == 2
MaxCols == 3
MaxFrame == 2

\* decimal digits a float carries: numbers are counted in units of 10^-Digits
Digits == 1

(* ------------------------------ values --------------------------------- *)

NaN == [t |-> "NaN", v |-> 0, s |-> <<>>]

NaT == [t |-> "NaT", v |-> 0, s |-> <<>>]

Num(x) == [t |-> "num", v |-> x, s |-> <<>>]

Bool(b) == [t |-> "bool", v |-> b, s |-> <<>>]

Dt(x) == [t |-> "dt", v |-> x, s |-> <<>>]

Str(cs) == [t |-> "str", v |-> 0, s |-> cs]

\* no generator yet: the fields of a generator of any variant
NoGen ==
  [kind |-> "none", dtype |-> "None", na_rate |-> <<0, 1>>, value |-> NaN,
   vals |-> <<>>, p |-> <<>>, bins |-> <<>>, regex |-> <<>>]

\* no call of make yet: the outcome of a call of make is the exception it
\* raised, or the dtype and elements of the array it returned (vals), the
\* array before the missing markers were put in (raw), the arguments, and
\* what the random source handed to _make for each element (draws)
NoOut ==
  [raised |-> "none", dtype |-> "None", raw |-> <<>>, vals |-> <<>>, size |-> 0,
   with_na |-> FALSE, draws |-> <<>>]

\* no call of a function of helper.py yet: the function called, its array
\* argument a and the dtype of a, the exception it raised and the value it
\* returned
NoRes == [fn |-> "none", dtype |-> "int", a |-> <<>>, raised |-> "none", value |-> 0]

\* no exception
NoError == [type |-> "none", args |-> <<>>]

\* a Duper without generators, outside make: the generators by column, the
\* arguments of make, the column the loop is at, the columns make was called
\* for with the exception raised, the frame df, what make raised and
\* returned, and the columns of the frame the Duper was fitted on
NoDuper ==
  [generators |-> <<>>, size |-> 0, with_na |-> FALSE, col |-> 0, calls |-> <<>>,
   df |-> <<>>, raised |-> NoError, returned |-> <<>>, frame |-> <<>>]

\* pd.isna / np.isnan / np.isnat on one element
isna(x) == x.t \in {"NaN", "NaT"}

Range(f) == {f[i] : i \in DOMAIN f}

SeqsUpTo(S, n) == UNION {[1..k -> S] : k \in 0..n}

Abs(x) == IF x < 0 THEN -x ELSE x

RECURSIVE Pow10(_)
Pow10(k) == IF k <= 0 THEN 1 ELSE 10 * Pow10(k - 1)

\* the number 1 in units
Unit == Pow10(Digits)

Max(S) == CHOOSE x \in S : \A y \in S : y <= x

Min(S) == CHOOSE x \in S : \A y \in S : x <= y

(* ----------------------------- rationals ------------------------------- *)

\* a rational with a positive denominator
Norm(a) == IF a[2] < 0 THEN <<-a[1], -a[2]>> ELSE a

\* np.rint / np.around of num/den (den > 0): nearest integer, ties to even
Rint(num, den) ==
  LET q == num \div den
      r == num % den
  IN IF 2 * r < den THEN q
     ELSE IF 2 * r > den THEN q + 1
     ELSE IF q % 2 = 0 THEN q ELSE q + 1

\* the C cast of num/den (den > 0) to an integer: towards zero
Trunc(num, den) == IF num >= 0 THEN num \div den ELSE -((-num) \div den)

RatLt(a, b) ==
  IF a[2] * b[2] > 0 THEN a[1] * b[2] < b[1] * a[2] ELSE a[1] * b[2] > b[1] * a[2]

RatEq(a, b) == a[1] * b[2] = b[1] * a[2]

RatLe(a, b) == RatLt(a, b) \/ RatEq(a, b)

(* ------------------------- dtypes of a column -------------------------- *)

\* np.float_ and np.int_ are one concrete dtype each (float64, the platform's
\* C long); "float32" stands for the floating-point and integer dtypes of
\* another width, "object" for pandas text columns.
DTypes == {"bool", "int", "float", "float32", "datetime64", "object"}

\* np.issubdtype(dtype, np.datetime64)
IsDatetime(dtype) == dtype = "datetime64"

\* the values a column of the dtype can hold
DomainOf(dtype) ==
  CASE dtype = "bool" -> {Bool(0), Bool(1)}
    [] dtype = "int" -> {Num(10), Num(20), Num(30)}
    [] dtype \in {"float", "float32"} -> {Num(5), Num(10), NaN}
    [] dtype = "datetime64" -> {Dt(1), Dt(2), NaT}
    [] dtype = "object" -> {Str(<<"a", "0">>), Str(<<"b", "1">>), Str(<<"c">>), NaN}

\* the columns handed to the selector: a dtype and its values in order
Columns ==
  UNION {{[dtype |-> d, vals |-> xs] : xs \in SeqsUpTo(DomainOf(d), MaxLen)} : d \in DTypes}

\* category_threshold, "should be in [0,1]", default 0.05
Thresholds == {<<0, 1>>, <<1, 20>>, <<1, 2>>, <<3, 4>>, <<1, 1>>}

(* --------------------- duper/analysis.py: selector --------------------- *)

\* pd.value_counts(data, dropna=False): distinct value -> number of occurrences
value_counts(vals) ==
  [x \in Range(vals) |-> Cardinality({i \in DOMAIN vals : vals[i] = x})]

IndexKey_NoCast(key, dtype) == key

\* the key np.nan as the index of the dtype looks it up: a DatetimeIndex
\* holds its missing entries as NaT and casts a missing key to NaT
IndexKey(key, dtype) == IF isna(key) /\ IsDatetime(dtype) THEN NaT ELSE key

\* Series.get(key, default) on the value counts of a column of the dtype
SeriesGet(series, key, default, dtype) ==
  IF IndexKey(key, dtype) \in DOMAIN series
  THEN series[IndexKey(key, dtype)]
  ELSE default

\* methods.ConstantDuper(value=, na_rate=)
ConstantDuper(value, na_rate) ==
  [kind |-> "ConstantDuper", value |-> value, na_rate |-> na_rate]

\* methods.CategoryDuper(data=): the frequency table holds the missing marker too
CategoryDuper(d) ==
  [kind |-> "CategoryDuper", value |-> NaN, na_rate |-> <<0, 1>>]

\* methods.QuantileDuper.__init__ (FloatDuper, IntDuper, DatetimeDuper)
QuantileDuper(kind, d) ==
  [kind |-> kind, value |-> NaN,
   na_rate |-> <<Cardinality({i \in DOMAIN d.vals : isna(d.vals[i])}), Len(d.vals)>>]

\* methods.RegExDuper.__init__
RegExDuper(d) ==
  [kind |-> "RegExDuper", value |-> NaN,
   na_rate |-> <<Cardinality({i \in DOMAIN d.vals : isna(d.vals[i])}), Len(d.vals)>>]

BelowThreshold_Inclusive(nunique, n, category_threshold) ==
  RatLe(<<nunique, n>>, category_threshold)

\* the rule "distinct / length < category_threshold" of choose_method
BelowThreshold(nunique, n, category_threshold) ==
  RatLt(<<nunique, n>>, category_threshold)

\* data.dtype == np.float_
IsFloat(dtype) == dtype = "float"

\* data.dtype == np.int_
IsInt(dtype) == dtype = "int"

choose_method(d, category_threshold) ==
  LET n == Len(d.vals)
      counts == value_counts(d.vals)
      unique_values == {x \in DOMAIN counts : ~isna(x)}
  IN IF n = 0 THEN ConstantDuper(NaN, <<1, 1>>)
     ELSE IF \A i \in DOMAIN d.vals : isna(d.vals[i])
       THEN ConstantDuper(d.vals[1], <<1, 1>>)
     ELSE IF Cardinality(unique_values) = 1
       THEN ConstantDuper(CHOOSE x \in unique_values : TRUE,
                          <<SeriesGet(counts, NaN, 0, d.dtype), n>>)
     ELSE IF d.dtype = "bool"
             \/ BelowThreshold(Cardinality(unique_values), n, category_threshold)
       THEN CategoryDuper(d)
     ELSE IF IsFloat(d.dtype) THEN QuantileDuper("FloatDuper", d)
     ELSE IF IsInt(d.dtype) THEN QuantileDuper("IntDuper", d)
     ELSE IF IsDatetime(d.dtype) THEN QuantileDuper("DatetimeDuper", d)
     ELSE IF d.dtype = "object"
             /\ Cardinality({Len(x.s) : x \in unique_values}) = 1
       THEN RegExDuper(d)
     ELSE CategoryDuper(d)

NoResult == [kind |-> "none", value |-> NaN, na_rate |-> <<0, 1>>]

NoColumn == [dtype |-> "float", vals |-> <<>>]

SelInit ==
  /\ data \in Columns
  /\ threshold \in Thresholds
  /\ chosen = NoResult
  /\ gen = NoGen
  /\ out = NoOut
  /\ res = NoRes
  /\ duper = NoDuper
  /\ pc = "column"

\* Duper.fit hands one column to the selector
Choose ==
  /\ pc = "column"
  /\ chosen' = choose_method(data, threshold)
  /\ pc' = "chosen"
  /\ UNCHANGED <<data, threshold, gen, out, res, duper>>

SelNext == Choose

SpecSelect == SelInit /\ [][SelNext]_vars

(* ------------------------- duper/helper.py ----------------------------- *)

\* np.around(x, d) of a number x in units: the nearest multiple of 10^-d
Around(x, d) ==
  IF d >= Digits THEN x
  ELSE Rint(x, Pow10(Digits - d)) * Pow10(Digits - d)

\* number_precision(a, max=16): max
MaxPrecision == 16

\* np.ceil(np.log10(m / Unit)) for m >= 1 units, searched upwards from c
RECURSIVE CeilLog10(_, _)
CeilLog10(m, c) == IF Pow10(c + Digits) >= m THEN c ELSE CeilLog10(m, c + 1)

\* number_precision: np.log10(0) is -inf and int(-inf) raises OverflowError
number_precision_raises(a) == Max(a) = 0

RECURSIVE precision_loop(_, _)
precision_loop(a, d) ==
  IF (\E x \in a : x # Around(x, d)) /\ d < MaxPrecision
  THEN precision_loop(a, d + 1)
  ELSE d

\* number_precision(a): a is the set of the array's numbers (no NaN), in
\* units; the start is taken from np.amax(a), not from the largest magnitude
number_precision(a) == precision_loop(a, -CeilLog10(Abs(Max(a)), -Digits))

RECURSIVE Gcd2(_, _)
Gcd2(x, y) == IF y = 0 THEN x ELSE Gcd2(y, x % y)

\* np.gcd.reduce over a set of integers
RECURSIVE GcdReduce(_)
GcdReduce(S) ==
  IF S = {} THEN 0
  ELSE LET x == CHOOSE y \in S : TRUE IN Gcd2(Abs(x), GcdReduce(S \ {x}))

\* np.around(a * 10 ** n).astype(int) of one number in units
IntRepr(x, n) ==
  IF n >= 0 THEN Rint(x * Pow10(n), Unit) ELSE Rint(x, Pow10(Digits - n))

\* helper.gcd(a), in units; a.dtype.type(...) truncates for an integer dtype
gcd(a, dtype) ==
  LET n == number_precision(a)
      g == GcdReduce({IntRepr(x, n) : x \in a})
      gcd_float == Around(IF n >= 0 THEN Rint(g * Unit, Pow10(n))
                          ELSE g * Unit * Pow10(-n), n)
  IN IF dtype = "int" THEN Trunc(gcd_float, Unit) * Unit ELSE gcd_float

\* helper.roundx(a, x) of one number a = num/den units (den > 0), x > 0 units
roundx(a, x) == Around(x * Rint(a[1], a[2] * x), number_precision({x}))

\* the search with side='right': how many breakpoints are at most x
searchsorted_right(xp, x) == Cardinality({j \in DOMAIN xp : RatLe(xp[j], x)})

\* np.searchsorted(xp, x): how many breakpoints are below x (xp ascending)
searchsorted(xp, x) == Cardinality({j \in DOMAIN xp : RatLt(xp[j], x)})

\* helper.interp raises IndexError when x lies above the last breakpoint
interp_raises(x, xp) == searchsorted(xp, x) = Len(xp)

\* helper.interp(x, xp, fp) at one x: the ratio (x - xp[i-1]) / (xp[i] - xp[i-1])
\* as a rational; index -1 of Python is the last element
interp_ratio(x, xp) ==
  LET i == searchsorted(xp, x) + 1
      j == IF i = 1 THEN Len(xp) ELSE i - 1
  IN Norm(<<(x[1] * xp[j][2] - xp[j][1] * x[2]) * xp[i][2] * xp[j][2],
            (xp[i][1] * xp[j][2] - xp[j][1] * xp[i][2]) * x[2] * xp[j][2]>>)

\* helper.interp(x, xp, fp) at one x over numbers: ratio * (fp[i] - fp[i-1]) + fp[i-1]
interp(x, xp, fp) ==
  LET i == searchsorted(xp, x) + 1
      j == IF i = 1 THEN Len(xp) ELSE i - 1
      r == interp_ratio(x, xp)
  IN <<r[1] * (fp[i] - fp[j]) + fp[j] * r[2], r[2]>>

\* helper.interp over datetimes: float * timedelta64 is cast back to whole
\* ticks (towards zero) before it is added to fp[i-1]
interp_datetime(x, xp, fp) ==
  LET i == searchsorted(xp, x) + 1
      j == IF i = 1 THEN Len(xp) ELSE i - 1
      r == interp_ratio(x, xp)
  IN fp[j] + Trunc(r[1] * (fp[i] - fp[j]), r[2])

(* ---------------------- duper/generator/base.py ------------------------ *)

\* the dtypes of the arrays the generators are fitted from: those of the
\* columns, and "str", numpy's fixed-width text of np.asarray(list of str)
GenDTypes == DTypes \cup {"str"}

\* the values an array of the dtype can hold; integer, boolean and
\* fixed-width text arrays hold no missing marker
GenDomain(dtype) ==
  CASE dtype = "bool" -> {Bool(0), Bool(1)}
    [] dtype = "int" -> {Num(-2 * Unit), Num(0), Num(2 * Unit)}
    [] dtype \in {"float", "float32"} -> {Num(Unit \div 2), Num(Unit), NaN}
    [] dtype = "datetime64" -> {Dt(60), Dt(180), NaT}
    [] dtype = "object" -> {Str(<<"a", "0">>), Str(<<"b">>), NaN}
    [] dtype = "str" -> {Str(<<"a", "0">>), Str(<<"b", "1">>)}

\* the data of test_ConstantGenerator_from_data
ConstantTestColumn ==
  [dtype |-> "float", vals |-> <<Num(Unit), Num(Unit), Num(Unit), NaN>>]

\* the data of test_ConstantGenerator_from_data, test_NumericGenerator_int
\* and test_NumericGenerator_float
TestColumns ==
  {ConstantTestColumn,
   [dtype |-> "int",
    vals |-> <<Num(2 * Unit), Num(2 * Unit), Num(2 * Unit), Num(4 * Unit),
               Num(6 * Unit), Num(8 * Unit)>>],
   [dtype |-> "float",
    vals |-> <<Num(Unit \div 5), Num(Unit \div 5), Num(Unit \div 5),
               Num(2 * (Unit \div 5)), Num(3 * (Unit \div 5)),
               Num(4 * (Unit \div 5)), NaN>>]}

\* the arrays handed to from_data
GenColumns ==
  TestColumns \cup
  UNION {{[dtype |-> d, vals |-> xs] : xs \in SeqsUpTo(GenDomain(d), MaxFit)} :
         d \in GenDTypes}

\* na_rate arguments of the formal constructors ("must be in [0,1]")
NaRates == {<<0, 1>>, <<1, 2>>, <<1, 1>>, <<3, 2>>, <<-1, 2>>}

\* the outcome of a constructor or of from_data: a generator, or an exception
Ok(g) == [raised |-> "none", gen |-> g]

Raise(e) == [raised |-> e, gen |-> NoGen]

\* np.issubdtype(dtype, dt) for dt among np.int_, np.float_, np.datetime64,
\* np.str_, np.object_
issubdtype(dtype, dt) ==
  CASE dt = "int" -> dtype = "int"
    [] dt = "float" -> dtype = "float"
    [] dt = "datetime64" -> dtype = "datetime64"
    [] dt = "str" -> dtype = "str"
    [] dt = "object" -> dtype = "object"

validate_untyped(DATA_DTYPES, d) ==
  IF Len(d.vals) = 0 THEN "ValueError" ELSE "none"

\* Generator.validate: the exception it raises, or "none"
validate(DATA_DTYPES, d) ==
  IF Len(d.vals) = 0 THEN "ValueError"
  ELSE IF DATA_DTYPES # {} /\ ~\E dt \in DATA_DTYPES : issubdtype(d.dtype, dt)
    THEN "TypeError"
  ELSE "none"

\* Generator.nan
nan(dtype) == IF dtype = "datetime64" THEN NaT ELSE NaN

\* the positions of the non-missing elements, in order
RECURSIVE DropNa(_)
DropNa(xs) ==
  IF xs = <<>> THEN <<>>
  ELSE IF isna(Head(xs)) THEN DropNa(Tail(xs))
  ELSE <<Head(xs)>> \o DropNa(Tail(xs))

\* pd.unique: the distinct elements in order of first appearance
RECURSIVE Unique(_)
Unique(xs) ==
  IF xs = <<>> THEN <<>>
  ELSE LET u == Unique(SubSeq(xs, 1, Len(xs) - 1))
       IN IF xs[Len(xs)] \in Range(u) THEN u ELSE Append(u, xs[Len(xs)])

(* -------------------- duper/generator/constant.py ---------------------- *)

\* np.array(value, dtype=dtype) raises ValueError: text or NaN into a number
array_raises(value, dtype) ==
  /\ dtype \in {"int", "float", "float32"}
  /\ \/ value.t = "str"
     \/ (value.t = "NaN" /\ dtype = "int")

\* Constant.__init__(value, dtype, na_rate); vtype is np.array(value).dtype
Constant_init(value, vtype, dtype, na_rate) ==
  IF dtype # "None" /\ array_raises(value, dtype) THEN Raise("ValueError")
  ELSE Ok([NoGen EXCEPT !.kind = "Constant",
                        !.dtype = IF dtype # "None" THEN dtype ELSE vtype,
                        !.value = value,
                        !.na_rate = na_rate])

Constant_from_data_first(d) ==
  LET na_rate == <<Cardinality({i \in DOMAIN d.vals : isna(d.vals[i])}), Len(d.vals)>>
      unique_values == Unique(DropNa(d.vals))
  IN IF validate({}, d) # "none" THEN Raise(validate({}, d))
     ELSE Constant_init(IF Len(unique_values) < 1 THEN Unique(d.vals)[1]
                        ELSE unique_values[1],
                        d.dtype, d.dtype, na_rate)

\* Constant.from_data(data)
Constant_from_data(d) ==
  LET na_rate == <<Cardinality({i \in DOMAIN d.vals : isna(d.vals[i])}), Len(d.vals)>>
      unique_values == Unique(DropNa(d.vals))
  IN IF validate({}, d) # "none" THEN Raise(validate({}, d))
     ELSE IF Len(unique_values) > 1 THEN Raise("ValueError")
     ELSE Constant_init(IF Len(unique_values) < 1 THEN Unique(d.vals)[1]
                        ELSE unique_values[1],
                        d.dtype, d.dtype, na_rate)

(* -------------------- duper/generator/category.py ---------------------- *)

\* the dtypes np.array(index) can have for the index of the value counts of
\* data of the dtype: pandas < 2 holds booleans in an object index and every
\* float in a float64 index, pandas 2 keeps the dtype
IndexDtypes(dtype) ==
  CASE dtype = "bool" -> {"bool", "object"}
    [] dtype = "float32" -> {"float32", "float"}
    [] dtype = "str" -> {"object"}
    [] OTHER -> {dtype}

\* Category.__init__(vals, p, dtype, na_rate); vtype is np.asarray(vals).dtype
Category_init(vals, p, vtype, dtype, na_rate) ==
  IF Len(p) # Len(vals) THEN Raise("ValueError")
  ELSE IF RatLt(na_rate, <<0, 1>>) \/ RatLt(<<1, 1>>, na_rate) THEN Raise("ValueError")
  ELSE Ok([NoGen EXCEPT !.kind = "Category",
                        !.dtype = IF dtype # "None" THEN dtype ELSE vtype,
                        !.vals = vals,
                        !.p = p,
                        !.na_rate = na_rate])

\* pd.value_counts(data, normalize=True, dropna=True): the distinct
\* non-missing values, most frequent first, and their share
RECURSIVE SortByCount(_, _)
SortByCount(S, counts) ==
  IF S = {} THEN <<>>
  ELSE LET x == CHOOSE y \in S : \A z \in S : counts[z] <= counts[y]
       IN <<x>> \o SortByCount(S \ {x}, counts)

\* Category.from_data(data), with the dtype of the index it is built from
Category_from_data(d, index_dtype) ==
  LET present == DropNa(d.vals)
      counts == value_counts(present)
      index == SortByCount(Range(present), counts)
      na_rate == <<Cardinality({i \in DOMAIN d.vals : isna(d.vals[i])}), Len(d.vals)>>
  IN IF validate({}, d) # "none" THEN Raise(validate({}, d))
     ELSE Category_init(index, [i \in DOMAIN index |-> <<counts[index[i]], Len(present)>>],
                        index_dtype, "None", na_rate)

(* -------------------- duper/generator/quantile.py ---------------------- *)

\* np.sort: ascending by number (or tick)
RECURSIVE Insert(_, _)
Insert(x, xs) ==
  IF xs = <<>> THEN <<x>>
  ELSE IF x.v <= Head(xs).v THEN <<x>> \o xs
  ELSE <<Head(xs)>> \o Insert(x, Tail(xs))

RECURSIVE Sort(_)
Sort(xs) == IF xs = <<>> THEN <<>> ELSE Insert(Head(xs), Sort(Tail(xs)))

\* np.linspace(0, 1, n)
linspace(n) == [i \in 1..n |-> <<i - 1, n - 1>>]

mask_adjacent(sorted, i) ==
  \/ i = 1
  \/ i = Len(sorted)
  \/ sorted[i].v - sorted[i - 1].v # 0

\* _mask = np.r_[True, _vals[2:] - _vals[:-2] != 0, True] at position i of n
mask(sorted, i) ==
  \/ i = 1
  \/ i = Len(sorted)
  \/ sorted[i + 1].v - sorted[i - 1].v # 0

\* xs[_mask]: the elements of xs at the positions the mask keeps
RECURSIVE Masked(_, _, _)
Masked(xs, sorted, i) ==
  IF i > Len(xs) THEN <<>>
  ELSE IF mask(sorted, i) THEN <<xs[i]>> \o Masked(xs, sorted, i + 1)
  ELSE Masked(xs, sorted, i + 1)

\* QuantileGenerator.__init__(vals, bins, dtype, na_rate) of Numeric and
\* Datetime; ndim is the number of dimensions of vals, bins = <<>> stands for
\* None, vtype is np.asarray(vals).dtype
Quantile_init(kind, vals, ndim, bins, vtype, dtype, na_rate) ==
  LET n == Len(vals)
      bins_ == IF bins = <<>> THEN linspace(n) ELSE bins
      sorted == Sort(vals)
  IN IF ndim # 1 THEN Raise("ValueError")
     ELSE IF n < 2 THEN Raise("ValueError")
     ELSE IF Len(bins_) # n THEN Raise("ValueError")
     ELSE IF RatLt(na_rate, <<0, 1>>) \/ RatLt(<<1, 1>>, na_rate) THEN Raise("ValueError")
     ELSE Ok([NoGen EXCEPT !.kind = kind,
                           !.vals = Masked(sorted, sorted, 1),
                           !.bins = Masked(bins_, sorted, 1),
                           !.dtype = IF dtype # "None" THEN dtype ELSE vtype,
                           !.na_rate = na_rate])

\* DATA_DTYPES of Numeric and of Datetime
DATA_DTYPES(kind) == IF kind = "Numeric" THEN {"int", "float"} ELSE {"datetime64"}

\* QuantileGenerator.from_data(data) of Numeric and Datetime
Quantile_from_data(kind, d) ==
  LET vals == DropNa(d.vals)
  IN IF validate(DATA_DTYPES(kind), d) # "none" THEN Raise(validate(DATA_DTYPES(kind), d))
     ELSE Quantile_init(kind, vals, 1, <<>>, d.dtype, d.dtype,
                        <<Len(d.vals) - Len(vals), Len(d.vals)>>)

\* Numeric.precision
Numeric_precision(g) == gcd({x.v : x \in Range(g.vals)}, g.dtype)

\* QuantileGenerator._make at one drawn p: helper.interp(...).astype(self.dtype)
Quantile_make(g, p) ==
  LET a == interp(p, g.bins, [i \in DOMAIN g.vals |-> g.vals[i].v])
  IN IF g.dtype = "int" THEN <<Trunc(a[1], a[2] * Unit) * Unit, 1>> ELSE a

Numeric_make_unrounded(g, p) ==
  Num(Trunc(Quantile_make(g, p)[1], Quantile_make(g, p)[2]))

\* Numeric._make at one drawn p: roundx(super()._make(size), x=self.precision)
Numeric_make(g, p) == Num(roundx(Quantile_make(g, p), Numeric_precision(g)))

\* the units helper.datetime_precision tries, finest first
DatetimeUnits == <<"ms", "s", "m", "h", "D", "M", "Y">>

\* the days from 1970-01-01 to the first of each month up to 1971-01-01
MonthStarts == {0, 31, 59, 90, 120, 151, 181, 212, 243, 273, 304, 334, 365}

\* a.astype("datetime64[f]") of one datetime t = <<minutes, microseconds>>:
\* whole minutes since 1970-01-01T00:00 and the microseconds within the
\* minute; datetimes lie between 1970-01-01 and 1971-01-31
astype_datetime(t, f) ==
  CASE f = "ns" -> t
    [] f = "ms" -> <<t[1], t[2] - (t[2] % 1000)>>
    [] f = "s" -> <<t[1], t[2] - (t[2] % 1000000)>>
    [] f = "m" -> <<t[1], 0>>
    [] f = "h" -> <<t[1] - (t[1] % 60), 0>>
    [] f = "D" -> <<t[1] - (t[1] % (24 * 60)), 0>>
    [] f = "M" -> <<24 * 60 * Max({d \in MonthStarts : d * 24 * 60 <= t[1]}), 0>>
    [] f = "Y" -> <<IF t[1] < 365 * 24 * 60 THEN 0 ELSE 365 * 24 * 60, 0>>

\* helper.datetime_precision(a): the loop from position k on, freq so far
RECURSIVE datetime_loop(_, _, _)
datetime_loop(a, k, freq) ==
  IF k > Len(DatetimeUnits) THEN freq
  ELSE IF \E t \in a : t # astype_datetime(t, DatetimeUnits[k]) THEN freq
  ELSE datetime_loop(a, k + 1, DatetimeUnits[k])

datetime_precision_ms(a) == datetime_loop(a, 1, "ms")

\* helper.datetime_precision(a): freq = "ns", then the loop
datetime_precision(a) == datetime_loop(a, 1, "ns")

\* Datetime.precision; the fitted datetimes are whole minutes
Datetime_precision(g) == datetime_precision({<<x.v, 0>> : x \in Range(g.vals)})

Datetime_make_untruncated(g, p) ==
  Dt(interp_datetime(p, g.bins, [i \in DOMAIN g.vals |-> g.vals[i].v]))

\* Datetime._make at one drawn p: super()._make(size).astype("datetime64[precision]")
Datetime_make(g, p) ==
  Dt(astype_datetime(<<interp_datetime(p, g.bins, [i \in DOMAIN g.vals |-> g.vals[i].v]), 0>>,
                     Datetime_precision(g))[1])

(* --------------------- duper/generator/regex.py ------------------------ *)

\* the printable ASCII characters, code points 32 to 126 ("grave" is the
\* backquote, code point 96); a text is a sequence of characters
Ascii ==
  <<" ", "!", "\"", "#", "$", "%", "&", "'", "(", ")", "*", "+", ",", "-",
    ".", "/", "0", "1", "2", "3", "4", "5", "6", "7", "8", "9", ":", ";",
    "<", "=", ">", "?", "@", "A", "B", "C", "D", "E", "F", "G", "H", "I",
    "J", "K", "L", "M", "N", "O", "P", "Q", "R", "S", "T", "U", "V", "W",
    "X", "Y", "Z", "[", "\\", "]", "^", "_", "grave", "a", "b", "c", "d", "e",
    "f", "g", "h", "i", "j", "k", "l", "m", "n", "o", "p", "q", "r", "s",
    "t", "u", "v", "w", "x", "y", "z", "{", "|", "}", "~">>

ord(c) == 31 + (CHOOSE i \in DOMAIN Ascii : Ascii[i] = c)

chr(i) == Ascii[i - 31]

\* the keys of replace_dict in _train_regex, the backslash apart
RegexSpecials ==
  {".", "^", "$", "*", "+", "-", "?", "(", ")", "[", "]", "{", "}", "|", "/"}

\* replace_dict.get(c, c)
escape(c) ==
  IF c = "\\" THEN <<"\\", "\\", "\\", "\\">>
  ELSE IF c \in RegexSpecials THEN <<"\\", c>>
  ELSE <<c>>

\* "".join(map(escape, np.sort(chars))) for the set of characters of a position
RECURSIVE JoinSorted(_)
JoinSorted(S) ==
  IF S = {} THEN <<>>
  ELSE LET c == CHOOSE x \in S : \A y \in S : ord(x) <= ord(y)
       IN escape(c) \o JoinSorted(S \ {c})

\* Regex._train_regex(data) from position k on; zip_longest fills the short
\* texts with "", which adds nothing to the class of a position
RECURSIVE train_from(_, _)
train_from(texts, k) ==
  IF \A i \in DOMAIN texts : Len(texts[i].s) < k THEN <<>>
  ELSE <<"[">>
       \o JoinSorted({texts[i].s[k] : i \in {j \in DOMAIN texts : Len(texts[j].s) >= k}})
       \o <<"]">> \o train_from(texts, k + 1)

train_regex(texts) == train_from(texts, 1)

\* str.replace(find, repl): every occurrence, left to right, not overlapping
RECURSIVE Replace(_, _, _)
Replace(str, find, repl) ==
  IF Len(str) < Len(find) THEN str
  ELSE IF SubSeq(str, 1, Len(find)) = find
    THEN repl \o Replace(SubSeq(str, Len(find) + 1, Len(str)), find, repl)
  ELSE <<Head(str)>> \o Replace(Tail(str), find, repl)

beautify_step_wide(regex, i) ==
  LET r == Replace(regex, <<chr(i), chr(i + 1), chr(i + 2)>>, <<chr(i), "-", chr(i + 3)>>)
  IN IF i \notin {ord("9") - 2, ord("a") - 2, ord("Z") - 2}
     THEN Replace(r, <<"-", chr(i + 2), chr(i + 3)>>, <<"-", chr(i + 3)>>)
     ELSE r

\* the body of the inner loop of _beautify_regex for one code point i
beautify_step(regex, i) ==
  LET r == Replace(regex, <<chr(i), chr(i + 1), chr(i + 2)>>, <<chr(i), "-", chr(i + 2)>>)
  IN IF i \notin {ord("9") - 2, ord("a") - 2, ord("Z") - 2}
     THEN Replace(r, <<"-", chr(i + 2), chr(i + 3)>>, <<"-", chr(i + 3)>>)
     ELSE r

\* for i in range(i, stop)
RECURSIVE beautify_range(_, _, _)
beautify_range(regex, i, stop) ==
  IF i >= stop THEN regex
  ELSE LET r == beautify_step(regex, i)
       IN IF r = regex THEN beautify_range(regex, i + 1, stop)
          ELSE beautify_range(r, i + 1, stop)

\* [a-zA-Z0-9]
IsAlnum(c) ==
  \/ ord("0") <= ord(c) /\ ord(c) <= ord("9")
  \/ ord("a") <= ord(c) /\ ord(c) <= ord("z")
  \/ ord("A") <= ord(c) /\ ord(c) <= ord("Z")

\* re.sub(r"\-[a-zA-Z0-9]\-", "-", regex)
RECURSIVE sub_dash(_)
sub_dash(regex) ==
  IF Len(regex) < 3 THEN regex
  ELSE IF regex[1] = "-" /\ IsAlnum(regex[2]) /\ regex[3] = "-"
    THEN <<"-">> \o sub_dash(SubSeq(regex, 4, Len(regex)))
  ELSE <<Head(regex)>> \o sub_dash(Tail(regex))

\* Regex._beautify_regex(regex)
beautify_regex(regex) ==
  sub_dash(beautify_range(beautify_range(beautify_range(regex,
    ord("0"), ord("9") - 1), ord("a"), ord("z") - 1), ord("A"), ord("Z") - 1))

\* Regex.__init__(regex, dtype, na_rate)
Regex_init(regex, dtype, na_rate) ==
  Ok([NoGen EXCEPT !.kind = "Regex", !.regex = regex, !.dtype = dtype,
                   !.na_rate = na_rate])

\* Regex.from_data(data)
Regex_from_data(d) ==
  LET vals == DropNa(d.vals)
  IN IF validate({"str", "object"}, d) # "none" THEN Raise(validate({"str", "object"}, d))
     ELSE Regex_init(beautify_regex(train_regex(vals)), d.dtype,
                     <<Len(d.vals) - Len(vals), Len(d.vals)>>)

\* rstr.xeger reads the pattern with Python's re parser.  One item of a
\* character class starting at position k: [next position, lowest code,
\* highest code]; a backslash quotes the next character, "x-y" is a range
class_item(regex, k) ==
  LET lo == IF regex[k] = "\\" THEN k + 1 ELSE k
      hi == IF regex[lo + 1] = "-" /\ regex[lo + 2] # "]"
            THEN (IF regex[lo + 2] = "\\" THEN lo + 3 ELSE lo + 2)
            ELSE lo
  IN <<hi + 1, ord(regex[lo]), ord(regex[hi])>>

\* the items of the class whose first item starts at position k, up to "]"
RECURSIVE class_items(_, _)
class_items(regex, k) ==
  IF regex[k] = "]" THEN <<>>
  ELSE <<class_item(regex, k)>> \o class_items(regex, class_item(regex, k)[1])

\* the position after the "]" closing the class whose items start at k
RECURSIVE class_end(_, _)
class_end(regex, k) ==
  IF regex[k] = "]" THEN k + 1 ELSE class_end(regex, class_item(regex, k)[1])

\* the pattern from position k on as a sequence of classes, each a sequence
\* of items; a character outside brackets stands for itself
RECURSIVE parse(_, _)
parse(regex, k) ==
  IF k > Len(regex) THEN <<>>
  ELSE IF regex[k] = "["
    THEN <<class_items(regex, k + 1)>> \o parse(regex, class_end(regex, k + 1))
  ELSE <<<< <<k + 1, ord(regex[k]), ord(regex[k])>> >>>> \o parse(regex, k + 1)

\* re.error "bad character range": a range whose ends are out of order
xeger_raises(regex) ==
  \E c \in Range(parse(regex, 1)) : \E it \in Range(c) : it[2] > it[3]

\* the characters rstr.xeger draws from for each class of the pattern
xeger_classes(regex) ==
  LET classes == parse(regex, 1)
  IN [n \in DOMAIN classes |->
        UNION {{chr(i) : i \in it[2]..it[3]} : it \in Range(classes[n])}]

\* the texts rstr.xeger(regex) can return
xeger(regex) ==
  LET classes == xeger_classes(regex)
  IN {Str(t) : t \in {u \in [DOMAIN classes -> UNION Range(classes)] :
                        \A n \in DOMAIN classes : u[n] \in classes[n]}}

(* ------------- duper/generator/base.py: Generator.make ----------------- *)

\* the uniform numbers QuantileGenerator._make draws for one element
PDraws == {<<0, 1>>, <<1, 2>>, <<7, 10>>}

\* the uniform numbers Generator.make draws for one element when with_na
UDraws == {<<0, 1>>, <<1, 2>>}

\* the sum of the rationals p[k..]
RECURSIVE SumFrom(_, _)
SumFrom(p, k) ==
  IF k > Len(p) THEN <<0, 1>>
  ELSE LET r == SumFrom(p, k + 1)
       IN <<p[k][1] * r[2] + r[1] * p[k][2], p[k][2] * r[2]>>

\* np.random.choice(a, size, p) raises ValueError: a is empty, p holds a
\* negative probability or p does not sum to 1
choice_raises(g) ==
  \/ Len(g.vals) = 0
  \/ \E i \in DOMAIN g.p : RatLt(g.p[i], <<0, 1>>)
  \/ ~RatEq(SumFrom(g.p, 1), <<1, 1>>)

\* what the random source hands to _make for one element: nothing for
\* Constant, the chosen position for Category, the uniform number for the
\* quantile generators, the text rstr.xeger returns for Regex
DrawSet(g) ==
  CASE g.kind = "Constant" -> {0}
    [] g.kind = "Category" ->
         IF choice_raises(g) THEN {0}
         ELSE {i \in DOMAIN g.vals : RatLt(<<0, 1>>, g.p[i])}
    [] g.kind \in {"Numeric", "Datetime"} -> PDraws
    [] g.kind = "Regex" ->
         IF xeger_raises(g.regex) THEN {Str(<<>>)} ELSE xeger(g.regex)

\* the outcome of _make: the exception raised, or the elements
Made(xs) == [raised |-> "none", vals |-> xs]

MakeRaise(e) == [raised |-> e, vals |-> <<>>]

\* Constant._make: np.full(shape=size, fill_value=self.value)
Constant_make(g, size) == Made([i \in 1..size |-> g.value])

\* Category._make: np.random.choice(a=index, size=size, p=categories)
Category_make(g, size, draws) ==
  IF choice_raises(g) THEN MakeRaise("ValueError")
  ELSE Made([i \in 1..size |-> g.vals[draws[i]]])

\* Numeric._make over the array: helper.interp is evaluated first, then
\* self.precision, then roundx
Numeric_make_array(g, size, draws) ==
  IF \E i \in 1..size : interp_raises(draws[i], g.bins) THEN MakeRaise("IndexError")
  ELSE IF number_precision_raises({x.v : x \in Range(g.vals)})
    THEN MakeRaise("OverflowError")
  ELSE Made([i \in 1..size |-> Numeric_make(g, draws[i])])

\* Datetime._make over the array
Datetime_make_array(g, size, draws) ==
  IF \E i \in 1..size : interp_raises(draws[i], g.bins) THEN MakeRaise("IndexError")
  ELSE Made([i \in 1..size |-> Datetime_make(g, draws[i])])

\* Regex._make: np.array([rstr.xeger(self.regex) for _ in range(size)])
Regex_make(g, size, draws) ==
  IF size > 0 /\ xeger_raises(g.regex) THEN MakeRaise("re.error")
  ELSE Made([i \in 1..size |-> draws[i]])

\* self._make(size=size) of the generator's variant
hidden_make(g, size, draws) ==
  CASE g.kind = "Constant" -> Constant_make(g, size)
    [] g.kind = "Category" -> Category_make(g, size, draws)
    [] g.kind = "Numeric" -> Numeric_make_array(g, size, draws)
    [] g.kind = "Datetime" -> Datetime_make_array(g, size, draws)
    [] g.kind = "Regex" -> Regex_make(g, size, draws)

\* the dtype ndarray.astype(dtype) gives: np.dtype(None) is float64
astype_dtype(dtype) == IF dtype = "None" THEN "float" ELSE dtype

Digit(c) == ord("0") <= ord(c) /\ ord(c) <= ord("9")

\* float(text) of a text of digits, in units
RECURSIVE float_of(_)
float_of(cs) ==
  IF cs = <<>> THEN 0
  ELSE 10 * float_of(SubSeq(cs, 1, Len(cs) - 1)) + (ord(cs[Len(cs)]) - ord("0")) * Unit

\* ndarray.astype(dtype) raises ValueError: a text that is no number
astype_raises(x, dtype) ==
  /\ astype_dtype(dtype) \in {"int", "float", "float32"}
  /\ x.t = "str"
  /\ (x.s = <<>> \/ \E i \in DOMAIN x.s : ~Digit(x.s[i]))

\* ndarray.astype(dtype) of one element
astype(x, dtype) ==
  IF astype_dtype(dtype) \in {"int", "float", "float32"} /\ x.t = "str"
    THEN Num(float_of(x.s))
  ELSE IF astype_dtype(dtype) = "int" /\ x.t = "num"
    THEN Num(Trunc(x.v, Unit) * Unit)
  ELSE x

\* the width of a fixed-width text array: its longest element, at least 1
itemsize(xs) == Max({1} \cup {Len(xs[i].s) : i \in DOMAIN xs})

\* data[isna] = self.nan: the element an array of the dtype holds after the
\* missing marker was assigned to it; a text array holds the text "nan" cut
\* to its width, a boolean array holds True
setitem(marker, dtype, width) ==
  CASE dtype = "str" -> Str(SubSeq(<<"n", "a", "n">>, 1, Min({3, width})))
    [] dtype = "bool" -> Bool(1)
    [] OTHER -> marker

Generator_after_make_shared(g, o) ==
  IF o.raised = "none" /\ o.vals # o.raw
  THEN [g EXCEPT !.value = nan(g.dtype),
                 !.vals = [i \in DOMAIN g.vals |-> nan(g.dtype)]]
  ELSE g

\* self after make returned or raised o: make and _make assign no attribute
\* of self, and data[isna] = self.nan writes to the array astype returned,
\* which is a copy
Generator_after_make(g, o) == g

\* Generator.make(size, with_na): draws is what the random source hands to
\* _make, u the uniform numbers of np.random.uniform(size=size)
Generator_make(g, size, with_na, draws, u) ==
  LET m == hidden_make(g, size, draws)
      raw == [i \in 1..size |-> astype(m.vals[i], g.dtype)]
      isna_mask == [i \in 1..size |-> with_na /\ RatLt(u[i], g.na_rate)]
      widened == (\E i \in 1..size : isna_mask[i]) /\ issubdtype(g.dtype, "int")
      dtype == IF widened THEN "float" ELSE astype_dtype(g.dtype)
  IN IF m.raised # "none"
       THEN [NoOut EXCEPT !.raised = m.raised, !.size = size, !.with_na = with_na]
     ELSE IF \E i \in 1..size : astype_raises(m.vals[i], g.dtype)
       THEN [NoOut EXCEPT !.raised = "ValueError", !.size = size, !.with_na = with_na]
     ELSE [raised |-> "none", dtype |-> dtype, raw |-> raw,
           vals |-> [i \in 1..size |->
                       IF isna_mask[i] THEN setitem(nan(g.dtype), dtype, itemsize(raw))
                       ELSE raw[i]],
           size |-> size, with_na |-> with_na, draws |-> draws]

(* --------------------- the generators: fit and make -------------------- *)

\* value and np.array(value).dtype of the arguments of Constant(value=...)
ConstantArgs ==
  {<<Num(3 * Unit), "int">>, <<Num(Unit \div 2), "float">>, <<NaN, "float">>,
   <<Str(<<"a", "0">>), "str">>, <<Bool(1), "bool">>, <<Dt(60), "datetime64">>}

\* the dtype arguments tried with a value: None, and int or float for
\* numbers and text
DtypeArgs(vtype) ==
  IF vtype \in {"int", "float", "str"} THEN {"None", "int", "float"} ELSE {"None"}

\* vals and np.asarray(vals).dtype of the arguments of Category(vals=, p=)
CategoryArgs ==
  {<<<<Num(Unit), Num(2 * Unit)>>, "int">>,
   <<<<Str(<<"a", "0">>), Str(<<"b", "1">>)>>, "str">>,
   <<<<Bool(0), Bool(1)>>, "bool">>}

\* the p arguments of Category(vals=, p=)
PArgs ==
  {<<<<1, 2>>, <<1, 2>>>>, <<<<1, 1>>, <<0, 1>>>>, <<<<1, 2>>, <<1, 4>>>>, <<<<1, 1>>>>}

\* vals, their number of dimensions and dtype for Numeric(vals=...)
NumericArgs ==
  {<<<<Num(3 * Unit)>>, 0, "int">>, <<<<Num(2 * Unit)>>, 1, "int">>,
   <<<<Num(4 * Unit), Num(2 * Unit)>>, 1, "int">>,
   <<<<Num(Unit), Num(Unit \div 2), Num(Unit)>>, 1, "float">>}

\* vals, their number of dimensions and dtype for Datetime(vals=...)
DatetimeArgs ==
  {<<<<Dt(60)>>, 1, "datetime64">>, <<<<Dt(180), Dt(60)>>, 1, "datetime64">>,
   <<<<Dt(61), Dt(60), Dt(60)>>, 1, "datetime64">>}

\* the bins arguments: None, or an array of breakpoints; the constructor
\* checks their shape only, so they need not start at 0 or end at 1
BinsArgs ==
  {<<>>, <<<<0, 1>>, <<1, 2>>>>, <<<<1, 2>>, <<1, 1>>>>,
   <<<<0, 1>>, <<1, 2>>, <<1, 1>>>>}

\* the regex arguments of Regex(regex=...); "[b-a]" is a bad character range
RegexArgs ==
  {<<"[", "a", "-", "b", "]", "[", "0", "]">>, <<"[", "7", "-", "8", "]">>,
   <<"[", "b", "-", "a", "]">>}

\* the array at hand before a generator is built: the data of from_data, or
\* none for a constructor
GenInit ==
  /\ data \in GenColumns
  /\ threshold = <<1, 20>>
  /\ chosen = NoResult
  /\ gen = NoGen
  /\ out = NoOut
  /\ res = NoRes
  /\ duper = NoDuper
  /\ pc = "new"

\* the outcome r of a constructor or of from_data on the column d; from_data
\* reads d and works on copies of it (boolean indexing, np.sort, astype)
Fit(r, d) ==
  /\ data' = d
  /\ gen' = r.gen
  /\ out' = [NoOut EXCEPT !.raised = r.raised]
  /\ pc' = IF r.raised = "none" THEN "fitted" ELSE "raised"
  /\ UNCHANGED <<threshold, chosen, res, duper>>

ConstantInit ==
  /\ pc = "new"
  /\ data = NoColumn
  /\ \E a \in ConstantArgs, na_rate \in NaRates :
       \E dtype \in DtypeArgs(a[2]) :
         Fit(Constant_init(a[1], a[2], dtype, na_rate), NoColumn)

ConstantFromData ==
  /\ pc = "new"
  /\ Fit(Constant_from_data(data), data)

CategoryInit ==
  /\ pc = "new"
  /\ data = NoColumn
  /\ \E a \in CategoryArgs, p \in PArgs, na_rate \in NaRates :
       Fit(Category_init(a[1], p, a[2], "None", na_rate), NoColumn)

CategoryFromData ==
  /\ pc = "new"
  /\ \E index_dtype \in IndexDtypes(data.dtype) :
       Fit(Category_from_data(data, index_dtype), data)

NumericInit ==
  /\ pc = "new"
  /\ data = NoColumn
  /\ \E a \in NumericArgs, bins \in BinsArgs, na_rate \in NaRates :
       Fit(Quantile_init("Numeric", a[1], a[2], bins, a[3], "None", na_rate), NoColumn)

NumericFromData ==
  /\ pc = "new"
  /\ Fit(Quantile_from_data("Numeric", data), data)

DatetimeInit ==
  /\ pc = "new"
  /\ data = NoColumn
  /\ \E a \in DatetimeArgs, bins \in BinsArgs, na_rate \in NaRates :
       Fit(Quantile_init("Datetime", a[1], a[2], bins, a[3], "None", na_rate), NoColumn)

DatetimeFromData ==
  /\ pc = "new"
  /\ Fit(Quantile_from_data("Datetime", data), data)

RegexInit ==
  /\ pc = "new"
  /\ data = NoColumn
  /\ \E regex \in RegexArgs, dtype \in {"None", "str", "object"}, na_rate \in NaRates :
       Fit(Regex_init(regex, dtype, na_rate), NoColumn)

RegexFromData ==
  /\ pc = "new"
  /\ Fit(Regex_from_data(data), data)

\* one call of make on the fitted generator
Make ==
  /\ pc = "fitted"
  /\ \E size \in 0..MaxSize, with_na \in BOOLEAN :
       \E draws \in [1..size -> DrawSet(gen)],
          u \in [1..size -> IF with_na THEN UDraws ELSE {<<1, 1>>}] :
         out' = Generator_make(gen, size, with_na, draws, u)
  /\ gen' = Generator_after_make(gen, out')
  /\ pc' = "made"
  /\ UNCHANGED <<data, threshold, chosen, res, duper>>

Next ==
  \/ ConstantInit
  \/ ConstantFromData
  \/ CategoryInit
  \/ CategoryFromData
  \/ NumericInit
  \/ NumericFromData
  \/ DatetimeInit
  \/ DatetimeFromData
  \/ RegexInit
  \/ RegexFromData
  \/ Make

Spec == GenInit /\ [][Next]_vars

(* ------------------- duper/helper.py: calls on arrays ------------------ *)

\* the whole numbers of the integer arrays handed to gcd and number_precision
IntValues == {-20, -3, 0, 15, 45, 150, 180, 450, 1800}

\* the integer arrays, elements in units
IntArrays ==
  UNION {[1..k -> {x * Unit : x \in IntValues}] : k \in 1..MaxArr}

\* the datetimes of the arrays handed to datetime_precision: 1970-01-01,
\* 1971-01-01, 1970-02-01, 1970-01-02, 01:00, 00:01, 00:00:01, 00:00:00.001
\* and 00:00:00.000001
DatetimeValues ==
  {<<0, 0>>, <<365 * 24 * 60, 0>>, <<31 * 24 * 60, 0>>, <<24 * 60, 0>>, <<60, 0>>,
   <<1, 0>>, <<0, 1000000>>, <<0, 1000>>, <<0, 1>>}

\* the datetime arrays
DatetimeArrays == UNION {[1..k -> DatetimeValues] : k \in 1..MaxArr}

\* the data of test_RegexGenerator_regex: 'a-0', 'b-1', ..., 'j-9' and np.nan
TenStrings ==
  [i \in 1..11 |-> IF i = 11 THEN NaN
                   ELSE Str(<<chr(ord("a") + i - 1), "-", chr(ord("0") + i - 1)>>)]

\* the elements of the object arrays handed to Regex.from_data
TextValues ==
  {Str(<<"a", "-">>), Str(<<"b", "0">>), Str(<<"c", "1">>), Str(<<"d", "2">>),
   Str(<<"-", "3">>), Str(<<"f">>), NaN}

\* the object arrays handed to Regex.from_data
TextArrays == {TenStrings} \cup UNION {[1..k -> TextValues] : k \in 1..MaxArr}

HelperInit ==
  /\ data = NoColumn
  /\ threshold = <<1, 20>>
  /\ chosen = NoResult
  /\ gen = NoGen
  /\ out = NoOut
  /\ res \in {[NoRes EXCEPT !.a = a] : a \in IntArrays}
             \cup {[NoRes EXCEPT !.a = a, !.dtype = "datetime64"] : a \in DatetimeArrays}
             \cup {[NoRes EXCEPT !.a = a, !.dtype = "object"] : a \in TextArrays}
  /\ duper = NoDuper
  /\ pc = "array"

\* the call fn(res.a) ended with the exception e ("none": none) or returned v
Return(fn, e, v) ==
  /\ res' = [res EXCEPT !.fn = fn, !.raised = e, !.value = IF e = "none" THEN v ELSE 0]
  /\ pc' = "returned"
  /\ UNCHANGED <<data, threshold, chosen, gen, out, duper>>

\* helper.gcd(a) on an integer array
CallGcd ==
  /\ pc = "array"
  /\ res.dtype = "int"
  /\ IF number_precision_raises(Range(res.a))
       THEN Return("gcd", "OverflowError", 0)
       ELSE Return("gcd", "none", gcd(Range(res.a), "int"))

\* helper.number_precision(a) on an integer array
CallNumberPrecision ==
  /\ pc = "array"
  /\ res.dtype = "int"
  /\ IF number_precision_raises(Range(res.a))
       THEN Return("number_precision", "OverflowError", 0)
       ELSE Return("number_precision", "none", number_precision(Range(res.a)))

\* helper.datetime_precision(a) on a datetime array
CallDatetimePrecision ==
  /\ pc = "array"
  /\ res.dtype = "datetime64"
  /\ Return("datetime_precision", "none", datetime_precision(Range(res.a)))

\* Regex.from_data(data) on an object array: the fitted pattern
CallRegexFromData ==
  /\ pc = "array"
  /\ res.dtype = "object"
  /\ LET r == Regex_from_data([dtype |-> "object", vals |-> res.a])
     IN Return("Regex.from_data", r.raised, r.gen.regex)

HelperNext ==
  \/ CallRegexFromData
  \/ CallGcd
  \/ CallNumberPrecision
  \/ CallDatetimePrecision

SpecHelper == HelperInit /\ [][HelperNext]_vars

(* ---------------------- duper/base.py: Duper.make ---------------------- *)

\* the generators a Duper holds for a column: two that make at every size,
\* one whose make raises OverflowError, one whose make raises ValueError and
\* one whose make raises re.error unless size is 0
DuperGenerators ==
  {Constant_init(Num(3 * Unit), "int", "None", <<0, 1>>).gen,
   Constant_init(Num(Unit \div 2), "float", "None", <<1, 2>>).gen,
   Quantile_from_data("Numeric", [dtype |-> "int", vals |-> <<Num(-2 * Unit), Num(0)>>]).gen,
   Category_from_data([dtype |-> "float", vals |-> <<NaN>>], "float").gen,
   Regex_init(<<"[", "b", "-", "a", "]">>, "object", <<0, 1>>).gen}

\* the Duper after fit or __setitem__: column i holds generators[i]
DuperInit ==
  /\ data = NoColumn
  /\ threshold = <<1, 20>>
  /\ chosen = NoResult
  /\ gen = NoGen
  /\ out = NoOut
  /\ res = NoRes
  /\ duper \in {[NoDuper EXCEPT !.generators = gs] :
                  gs \in UNION {[1..k -> DuperGenerators] : k \in 0..MaxCols}}
  /\ pc = "duper"

\* analysis.find_best_generator(data, category_threshold): the generator
\* class of the strategy the selector decides on
find_best_generator(d, category_threshold) ==
  LET kind == choose_method(d, category_threshold).kind
  IN CASE kind = "ConstantDuper" -> "Constant"
       [] kind = "CategoryDuper" -> "Category"
       [] kind \in {"FloatDuper", "IntDuper"} -> "Numeric"
       [] kind = "DatetimeDuper" -> "Datetime"
       [] kind = "RegExDuper" -> "Regex"

\* cls.from_data(data) of the generator class cls
from_data(cls, d, index_dtype) ==
  CASE cls = "Constant" -> Constant_from_data(d)
    [] cls = "Category" -> Category_from_data(d, index_dtype)
    [] cls \in {"Numeric", "Datetime"} -> Quantile_from_data(cls, d)
    [] cls = "Regex" -> Regex_from_data(d)

\* the columns of the frames handed to fit, of two rows each
FitColumns ==
  {[dtype |-> "int", vals |-> <<Num(-2 * Unit), Num(0)>>],
   [dtype |-> "int", vals |-> <<Num(0), Num(2 * Unit)>>],
   [dtype |-> "bool", vals |-> <<Bool(0), Bool(1)>>],
   [dtype |-> "object", vals |-> <<Str(<<"a", "0">>), Str(<<"a", "0">>)>>]}

\* the frames handed to fit: columns of two rows, or columns without a row
Frames ==
  UNION {[1..k -> FitColumns] \cup [1..k -> {NoColumn}] : k \in 0..MaxFrame}

\* Duper.fit(df) with the default category_threshold, on a new Duper or on
\* one that holds a generator: the generators held before are dropped, then
\* each column is fitted in order; an exception of from_data ends the loop.
\* The installed pandas is of version 2 or older for all columns
DuperFit ==
  /\ pc = "duper"
  /\ Len(duper.generators) <= 1
  /\ \E df \in Frames, pandas2 \in BOOLEAN :
         /\ LET index == [i \in 1..Len(df) |->
                           IF pandas2 /\ df[i].dtype \in IndexDtypes(df[i].dtype)
                           THEN df[i].dtype
                           ELSE CHOOSE x \in IndexDtypes(df[i].dtype) :
                                  x # df[i].dtype \/ IndexDtypes(df[i].dtype) = {x}]
                r == [i \in 1..Len(df) |->
                       from_data(find_best_generator(df[i], <<1, 20>>), df[i], index[i])]
                k == Min({i \in 1..Len(df) : r[i].raised # "none"} \cup {Len(df) + 1})
            IN /\ duper' = [NoDuper EXCEPT
                              !.generators = [i \in 1..(k - 1) |-> r[i].gen],
                              !.frame = df,
                              !.raised = IF k > Len(df) THEN NoError
                                         ELSE [type |-> r[k].raised, args |-> <<r[k].raised>>]]
               /\ pc' = IF k > Len(df) THEN "duper_fit" ELSE "fit_raised"
  /\ UNCHANGED <<data, threshold, chosen, gen, out, res>>

reraise_bare(e, col) == [type |-> "Exception", args |-> e.args]

\* raise Exception(*e.args, f"column='{col}'")
reraise(e, col) == [type |-> "Exception", args |-> Append(e.args, <<"column", col>>)]

\* Duper.make(size, with_na) up to the loop: the empty frame of the columns
DuperMake ==
  /\ pc \in {"duper", "duper_fit"}
  /\ \E size \in 0..MaxSize, with_na \in BOOLEAN :
       duper' = [duper EXCEPT !.size = size, !.with_na = with_na, !.col = 1]
  /\ pc' = "make_loop"
  /\ UNCHANGED <<data, threshold, chosen, gen, out, res>>

\* one pass of the loop: df[col] = self.generators[col].make(size, with_na),
\* or the exception raised anew with the column; the arguments of the
\* original exception are held as its class
DuperMakeColumn ==
  /\ pc = "make_loop"
  /\ duper.col <= Len(duper.generators)
  /\ LET g == duper.generators[duper.col]
     IN \E draws \in [1..duper.size -> DrawSet(g)],
           u \in [1..duper.size -> IF duper.with_na THEN UDraws ELSE {<<1, 1>>}] :
          LET r == Generator_make(g, duper.size, duper.with_na, draws, u)
              e == [type |-> r.raised, args |-> <<r.raised>>]
              calls == Append(duper.calls, [col |-> duper.col, raised |-> r.raised])
          IN IF r.raised = "none"
             THEN /\ duper' = [duper EXCEPT !.calls = calls,
                                            !.df = Append(duper.df, r.vals),
                                            !.col = duper.col + 1]
                  /\ pc' = "make_loop"
             ELSE /\ duper' = [duper EXCEPT !.calls = calls,
                                            !.df = <<>>,
                                            !.raised = reraise(e, duper.col)]
                  /\ pc' = "make_raised"
  /\ UNCHANGED <<data, threshold, chosen, gen, out, res>>

\* return df after the last column
DuperMakeReturn ==
  /\ pc = "make_loop"
  /\ duper.col > Len(duper.generators)
  /\ duper' = [duper EXCEPT !.returned = duper.df]
  /\ pc' = "make_returned"
  /\ UNCHANGED <<data, threshold, chosen, gen, out, res>>

DuperNext ==
  \/ DuperFit
  \/ DuperMake
  \/ DuperMakeColumn
  \/ DuperMakeReturn

SpecDuper == DuperInit /\ [][DuperNext]_vars

(* ------------------------- claims: the selector ------------------------ *)

\* distinct non-missing values of the column, and its missing count
Distinct(d) == {d.vals[i] : i \in {j \in DOMAIN d.vals : ~isna(d.vals[j])}}

Missing(d) == Cardinality({i \in DOMAIN d.vals : isna(d.vals[i])})

\* C1: the selector returns Constant exactly for the columns with at most one
\* distinct non-missing value; with exactly one such value the constant is
\* that value and na_rate = missing / length (NaT columns included); an
\* empty or all-missing column has na_rate = 1.
C1_ConstantSelection ==
  pc = "chosen" =>
    /\ (chosen.kind = "ConstantDuper") <=> (Cardinality(Distinct(data)) <= 1)
    /\ Cardinality(Distinct(data)) = 1 =>
         /\ chosen.value \in Distinct(data)
         /\ RatEq(chosen.na_rate, <<Missing(data), Len(data.vals)>>)
    /\ Cardinality(Distinct(data)) = 0 =>
         /\ RatEq(chosen.na_rate, <<1, 1>>)
         /\ isna(chosen.value)

\* a datetime column with one distinct value and two NaT entries has been
\* given to the selector, which chose Constant
C1_Witness ==
  /\ pc = "chosen"
  /\ data.dtype = "datetime64"
  /\ Cardinality(Distinct(data)) = 1
  /\ Missing(data) = 2
  /\ chosen.kind = "ConstantDuper"

\* the column's distinct-ratio compared with the threshold, in exact arithmetic
RatioBelow(d, thr) == Cardinality(Distinct(d)) * thr[2] < thr[1] * Len(d.vals)

RatioEqual(d, thr) == Cardinality(Distinct(d)) * thr[2] = thr[1] * Len(d.vals)

\* C2: with at least two distinct non-missing values, a boolean column or a
\* column whose distinct-ratio (over the full length) is strictly below the
\* threshold selects Category, whatever its dtype; a ratio equal to the
\* threshold does not: the float, integer and datetime rules then decide.
C2_CategoryRule ==
  (pc = "chosen" /\ Cardinality(Distinct(data)) >= 2) =>
    /\ (data.dtype = "bool" \/ RatioBelow(data, threshold)) =>
         chosen.kind = "CategoryDuper"
    /\ (RatioEqual(data, threshold) /\ data.dtype \in {"int", "float", "datetime64"}) =>
         chosen.kind \in {"IntDuper", "FloatDuper", "DatetimeDuper"}

\* a float column whose ratio equals the threshold, with missing markers in
\* the length, went to the quantile method
C2_Witness ==
  /\ pc = "chosen"
  /\ data.dtype = "float"
  /\ Cardinality(Distinct(data)) = 2
  /\ Missing(data) > 0
  /\ RatioEqual(data, threshold)
  /\ chosen.kind = "FloatDuper"

\* the kind rules 5 to 8 of the selection order name for a column
KindByDtype(d) ==
  IF d.dtype \in {"float", "float32"} THEN "FloatDuper"
  ELSE IF d.dtype = "int" THEN "IntDuper"
  ELSE IF d.dtype = "datetime64" THEN "DatetimeDuper"
  ELSE IF d.dtype = "object" /\ Cardinality({Len(x.s) : x \in Distinct(d)}) = 1
    THEN "RegExDuper"
  ELSE "CategoryDuper"

\* C3: a non-boolean column with at least two distinct non-missing values
\* and distinct-ratio >= threshold selects by dtype: float or integer ->
\* numeric quantile, datetime -> datetime quantile, equal-length text ->
\* regex, anything else -> category.
C3_DtypeRules ==
  (/\ pc = "chosen"
   /\ Cardinality(Distinct(data)) >= 2
   /\ data.dtype # "bool"
   /\ ~RatioBelow(data, threshold)) =>
    chosen.kind = KindByDtype(data)

(* ------------------------ claims: the generators ----------------------- *)

\* the generator was fitted by from_data (a constructor leaves no column)
FromData == Len(data.vals) > 0

\* C4: for every fitted generator, every size and both settings of with_na,
\* make returns an array of exactly size elements.
C4_SizeContract ==
  pc = "made" => (out.raised = "none" /\ Len(out.vals) = out.size)

\* C5: make changes no element of the generated array when with_na is off or
\* na_rate is 0, and every element of its result is a missing marker when
\* with_na is on and na_rate is 1; a Constant generator with na_rate 0 yields
\* only its value.
C5_NaInjection ==
  (pc = "made" /\ out.raised = "none") =>
    /\ (~out.with_na \/ RatEq(gen.na_rate, <<0, 1>>)) => out.vals = out.raw
    /\ (out.with_na /\ RatEq(gen.na_rate, <<1, 1>>)) =>
         \A i \in DOMAIN out.vals : isna(out.vals[i])
    /\ (gen.kind = "Constant" /\ RatEq(gen.na_rate, <<0, 1>>)) =>
         \A i \in DOMAIN out.vals : out.vals[i] = gen.value

\* C6: the array make returns has the generator's fitted dtype, also when a
\* missing marker was put into the array of an integer generator, and the
\* fitted dtype is the dtype of the data the generator was fitted from.
C6_DtypeRoundTrip ==
  /\ (pc = "made" /\ out.raised = "none") => out.dtype = gen.dtype
  /\ (pc \in {"fitted", "made"} /\ FromData) => gen.dtype = data.dtype

\* C7: make of a generator that a constructor or from_data returned without
\* error never raises.
C7_MakeNeverRaises ==
  (pc = "made" /\ gen.kind # "none") => out.raised = "none"

\* C8: every generator a constructor or from_data returned has
\* 0 <= na_rate <= 1.
C8_NaRateRange ==
  pc \in {"fitted", "made"} =>
    (RatLe(<<0, 1>>, gen.na_rate) /\ RatLe(gen.na_rate, <<1, 1>>))

\* the numbers (ticks) of the non-missing elements of the column, by position
Present(d) == {i \in DOMAIN d.vals : ~isna(d.vals[i])}

\* the i-th smallest number among the non-missing elements of the column
SortedAt(d, i) ==
  LET v == CHOOSE w \in {d.vals[j].v : j \in Present(d)} :
             /\ Cardinality({j \in Present(d) : d.vals[j].v < w}) < i
             /\ i <= Cardinality({j \in Present(d) : d.vals[j].v <= w})
  IN v

\* the positions of the sorted values the fit retains: the first, the last,
\* and every one that differs from its predecessor or from its successor
Retained(d) ==
  LET n == Cardinality(Present(d))
  IN {i \in 1..n : \/ i = 1
                   \/ i = n
                   \/ SortedAt(d, i - 1) # SortedAt(d, i)
                   \/ SortedAt(d, i + 1) # SortedAt(d, i)}

\* the j-th smallest element of a set of positions
Nth(K, j) == CHOOSE i \in K : Cardinality({k \in K : k <= i}) = j

\* C9: the quantile fit on a column with n >= 2 non-missing values keeps, of
\* the values sorted ascending with breakpoint (i-1)/(n-1) at the i-th, all
\* but the interior ones equal to both neighbours, each with its breakpoint;
\* na_rate = 1 - n / length.
C9_QuantileFit ==
  (pc = "fitted" /\ gen.kind \in {"Numeric", "Datetime"} /\ FromData) =>
    LET n == Cardinality(Present(data))
        K == Retained(data)
    IN /\ n >= 2
       /\ Len(gen.vals) = Cardinality(K)
       /\ Len(gen.bins) = Cardinality(K)
       /\ \A j \in 1..Cardinality(K) :
            /\ gen.vals[j].v = SortedAt(data, Nth(K, j))
            /\ RatEq(gen.bins[j], <<Nth(K, j) - 1, n - 1>>)
       /\ RatEq(gen.na_rate, <<Len(data.vals) - n, Len(data.vals)>>)

\* the fit of [2,2,2,4,6,8] retained [2,2,4,6,8] at [0, 0.4, 0.6, 0.8, 1]
C9_Witness ==
  /\ pc = "fitted"
  /\ gen.kind = "Numeric"
  /\ data.dtype = "int"
  /\ Len(data.vals) = 6
  /\ gen.vals = <<Num(2 * Unit), Num(2 * Unit), Num(4 * Unit), Num(6 * Unit), Num(8 * Unit)>>
  /\ gen.bins = <<<<0, 5>>, <<2, 5>>, <<3, 5>>, <<4, 5>>, <<5, 5>>>>

\* the greatest number (in units) all fitted values are whole multiples of
FittedGcd(g) ==
  Max({k \in 1..Max({Abs(x.v) : x \in Range(g.vals)}) :
         \A x \in Range(g.vals) : x.v % k = 0})

\* C10: every element a Numeric generator makes, before missing markers are
\* put in, is a whole multiple of the fitted precision, which is the
\* greatest common divisor of the fitted values.
C10_MultipleOfPrecision ==
  (pc = "made" /\ gen.kind = "Numeric" /\ out.raised = "none") =>
    /\ Numeric_precision(gen) = FittedGcd(gen)
    /\ \A i \in DOMAIN out.raw : out.raw[i].v % FittedGcd(gen) = 0

\* the generator fitted on [2,2,2,4,6,8] made 4 from a draw that the
\* interpolation puts between the fitted values
C10_Witness ==
  /\ pc = "made"
  /\ gen.kind = "Numeric"
  /\ out.raised = "none"
  /\ Len(data.vals) = 6
  /\ data.dtype = "int"
  /\ out.size = 2
  /\ out.raw[1] = Num(4 * Unit)
  /\ out.raw[2] = Num(2 * Unit)

\* the fitted values of a quantile generator as numbers, by position
Fp(g) == [i \in DOMAIN g.vals |-> g.vals[i].v]

\* C11: each element a Numeric generator makes is the multiple of the fitted
\* greatest common divisor nearest to the value the linear interpolation
\* gives for the element's drawn uniform number.
C11_NearestMultiple ==
  (pc = "made" /\ gen.kind = "Numeric" /\ out.raised = "none") =>
    \A i \in DOMAIN out.raw :
      LET a == interp(out.draws[i], gen.bins, Fp(gen))
      IN /\ out.raw[i].v % FittedGcd(gen) = 0
         /\ 2 * Abs(out.raw[i].v * a[2] - a[1]) <= FittedGcd(gen) * a[2]

(* -------------------------- claims: helper.py -------------------------- *)

\* the whole numbers of the array res.a
Whole == IF res.dtype = "int" THEN {res.a[i] \div Unit : i \in DOMAIN res.a} ELSE {}

\* C12: for an integer array with a non-zero element, gcd returns the
\* largest positive integer that divides every element, and
\* number_precision returns -k for the largest power of ten 10^k that
\* divides every element.
C12_IntegerGcd ==
  (pc = "returned" /\ res.dtype = "int" /\ Whole # {0}) =>
    /\ res.raised = "none"
    /\ res.fn = "gcd" =>
         res.value = Unit * Max({k \in 1..Max({Abs(x) : x \in Whole}) :
                                   \A x \in Whole : x % k = 0})
    /\ res.fn = "number_precision" =>
         res.value = -Max({k \in 0..9 : \A x \in Whole : x % Pow10(k) = 0})

\* the chain of datetime units, finest first
UnitChain == <<"ns", "ms", "s", "m", "h", "D", "M", "Y">>

\* the datetime t = <<minutes, microseconds>> is a whole number of units u
WholeAt(t, u) ==
  CASE u = "ns" -> TRUE
    [] u = "ms" -> t[2] % 1000 = 0
    [] u = "s" -> t[2] % 1000000 = 0
    [] u = "m" -> t[2] = 0
    [] u = "h" -> t[2] = 0 /\ t[1] % 60 = 0
    [] u = "D" -> t[2] = 0 /\ t[1] % (24 * 60) = 0
    [] u = "M" -> t[2] = 0 /\ \E d \in MonthStarts : t[1] = d * 24 * 60
    [] u = "Y" -> t[2] = 0 /\ t[1] \in {0, 365 * 24 * 60}

\* C13: the detected precision is the coarsest unit of the chain ns < ms <
\* s < m < h < D < M < Y at which every value is unchanged by truncation;
\* data of unit u with a value that is no whole number of the next coarser
\* unit is detected as u, microsecond data as ns.
C13_DatetimePrecision ==
  (pc = "returned" /\ res.fn = "datetime_precision") =>
    /\ res.raised = "none"
    /\ \E k \in DOMAIN UnitChain :
         /\ res.value = UnitChain[k]
         /\ \A t \in Range(res.a) : WholeAt(t, UnitChain[k])
         /\ \A j \in DOMAIN UnitChain :
              (\A t \in Range(res.a) : WholeAt(t, UnitChain[j])) => j <= k

\* hours were detected for an array holding a day and an hour, and
\* nanoseconds for an array holding a microsecond
C13_Witness ==
  /\ pc = "returned"
  /\ res.fn = "datetime_precision"
  /\ \/ /\ res.value = "h"
        /\ <<24 * 60, 0>> \in Range(res.a)
     \/ /\ res.value = "ns"
        /\ <<0, 1>> \in Range(res.a)
        /\ <<60, 0>> \in Range(res.a)

\* C14: every datetime a Datetime generator makes, in the array make returns
\* with the fitted dtype, equals its truncation to the detected precision: it
\* is a whole number of that unit.
C14_NoFinerPrecision ==
  (pc = "made" /\ gen.kind = "Datetime" /\ out.raised = "none") =>
    \A i \in DOMAIN out.vals :
      /\ WholeAt(<<out.raw[i].v, 0>>, Datetime_precision(gen))
      /\ ~isna(out.vals[i]) => WholeAt(<<out.vals[i].v, 0>>, Datetime_precision(gen))

\* a generator fitted on 01:00 and 03:00, whole hours, made 02:00 from a
\* draw the interpolation puts at 02:24
C14_Witness ==
  /\ pc = "made"
  /\ gen.kind = "Datetime"
  /\ out.raised = "none"
  /\ Datetime_precision(gen) = "h"
  /\ out.size = 1
  /\ out.draws[1] = <<7, 10>>
  /\ interp_datetime(out.draws[1], gen.bins, Fp(gen)) = 144
  /\ out.vals[1] = Dt(120)

\* the texts among the elements of res.a
Training == {res.a[i] : i \in {j \in DOMAIN res.a : ~isna(res.a[j])}}

\* C15: Regex.from_data on texts that all have the length L fits a pattern
\* of L character classes (the ten texts 'a-0' to 'j-9' and a missing value
\* give [a-j][\-][0-9]); every text generated from the pattern has the
\* length L and at each position a character some training text has there.
C15_RegexFit ==
  (/\ pc = "returned"
   /\ res.fn = "Regex.from_data"
   /\ Training # {}
   /\ Cardinality({Len(x.s) : x \in Training}) = 1) =>
    LET L == Len((CHOOSE x \in Training : TRUE).s)
    IN /\ res.raised = "none"
       /\ ~xeger_raises(res.value)
       /\ Len(xeger_classes(res.value)) = L
       /\ \A t \in xeger(res.value) :
            /\ Len(t.s) = L
            /\ \A i \in 1..L : \E x \in Training : x.s[i] = t.s[i]
       /\ res.a = TenStrings =>
            res.value = <<"[", "a", "-", "j", "]", "[", "\\", "-", "]", "[", "0", "-", "9", "]">>

\* the pattern of the ten texts 'a-0' to 'j-9' and a missing value was fitted
C15_Witness ==
  /\ pc = "returned"
  /\ res.fn = "Regex.from_data"
  /\ res.a = TenStrings
  /\ res.raised = "none"
  /\ Str(<<"j", "-", "0">>) \in xeger(res.value)

(* ------------------------- claims: fitting ----------------------------- *)

\* the number of missing elements of the column over its length
MissingShare(d) == <<Cardinality({i \in DOMAIN d.vals : isna(d.vals[i])}), Len(d.vals)>>

\* C16: the generator Category.from_data returns holds every distinct
\* non-missing value of the data once, with its count over the number of
\* non-missing elements as probability: the probabilities are positive and
\* sum to 1, no category is a missing marker, and na_rate is the number of
\* missing elements over the length of the data.
C16_CategoryProportions ==
  (pc \in {"fitted", "made"} /\ gen.kind = "Category" /\ FromData) =>
    LET n == Cardinality(Present(data))
    IN /\ Range(gen.vals) = {data.vals[i] : i \in Present(data)}
       /\ \A i, j \in DOMAIN gen.vals : gen.vals[i] = gen.vals[j] => i = j
       /\ \A i \in DOMAIN gen.vals :
            /\ ~isna(gen.vals[i])
            /\ RatLt(<<0, 1>>, gen.p[i])
            /\ gen.p[i][2] # 0
            /\ RatEq(gen.p[i],
                     <<Cardinality({k \in Present(data) : data.vals[k] = gen.vals[i]}), n>>)
       /\ Len(gen.p) = Len(gen.vals)
       /\ RatEq(SumFrom(gen.p, 1), <<1, 1>>)
       /\ RatEq(gen.na_rate, MissingShare(data))

\* C17: Category.from_data on data without a non-missing element (empty, or
\* missing markers only) raises ValueError and returns no generator.
C17_CategoryEmptyFails ==
  [][(CategoryFromData /\ Present(data') = {}) =>
       (out'.raised = "ValueError" /\ pc' = "raised" /\ gen' = NoGen)]_vars

\* C18: Constant.from_data raises ValueError on empty data and on data with
\* more than one distinct non-missing value; on other data it returns a
\* generator with the one distinct non-missing value (a missing marker when
\* every element is missing) as value, the dtype of the data as dtype and
\* the number of missing elements over the length as na_rate (1/4 for
\* [1, 1, 1, NaN]).
C18_ConstantFromData ==
  [][ConstantFromData =>
       LET distinct == {data'.vals[i] : i \in Present(data')}
       IN IF Len(data'.vals) = 0 \/ Cardinality(distinct) > 1
          THEN out'.raised = "ValueError" /\ pc' = "raised" /\ gen' = NoGen
          ELSE /\ out'.raised = "none"
               /\ pc' = "fitted"
               /\ gen'.kind = "Constant"
               /\ IF distinct = {} THEN isna(gen'.value) ELSE distinct = {gen'.value}
               /\ gen'.dtype = data'.dtype
               /\ RatEq(gen'.na_rate, MissingShare(data'))
               /\ data' = ConstantTestColumn => Norm(gen'.na_rate) = <<1, 4>>]_vars

\* Constant.from_data returned the generator of [1, 1, 1, NaN]
C18_Witness ==
  /\ pc = "fitted"
  /\ gen.kind = "Constant"
  /\ data = ConstantTestColumn
  /\ gen.value = Num(Unit)
  /\ gen.na_rate = <<1, 4>>

\* the step raised the exception e and left no generator
Raised(e) == out'.raised = e /\ pc' = "raised" /\ gen' = NoGen

\* the arguments the constructor of a quantile generator rejects: vals of
\* another dimension than 1 or of fewer than two elements, bins of another
\* shape than vals, na_rate outside [0,1]
BadQuantileArgs(vals, ndim, bins, na_rate) ==
  \/ ndim # 1
  \/ Len(vals) < 2
  \/ (bins # <<>> /\ Len(bins) # Len(vals))
  \/ RatLt(na_rate, <<0, 1>>)
  \/ RatLt(<<1, 1>>, na_rate)

C20_MakeReraises ==
  /\ pc = "make_raised" =>
       LET k == Len(duper.calls)
       IN /\ k \in 1..Len(duper.generators)
          /\ \A j \in 1..k : duper.calls[j].col = j
          /\ \A j \in 1..(k - 1) : duper.calls[j].raised = "none"
          /\ duper.calls[k].raised # "none"
          /\ duper.raised.args = <<duper.calls[k].raised, <<"column", k>>>>
          /\ duper.returned = <<>>
          /\ duper.df = <<>>
  /\ pc = "make_returned" =>
       /\ duper.raised = NoError
       /\ \A j \in DOMAIN duper.calls : duper.calls[j].raised = "none"
       /\ Len(duper.returned) = Len(duper.generators)
       /\ \A j \in DOMAIN duper.returned : Len(duper.returned[j]) = duper.size

\* the make of the second of three columns raised after the first was made
C20_Witness ==
  /\ pc = "make_raised"
  /\ Len(duper.generators) = 3
  /\ Len(duper.calls) = 2
  /\ duper.size = 2
  /\ duper.raised.args = <<"OverflowError", <<"column", 2>>>>

\* C21: after Duper.fit(df) the Duper holds one generator per column of df,
\* in the order of df, each of the dtype of its column and none held from
\* before; every make(size) after it returns a frame of these columns with
\* size rows each.
C21_FitThenMake ==
  /\ pc = "duper_fit" =>
       /\ Len(duper.generators) = Len(duper.frame)
       /\ \A i \in DOMAIN duper.generators :
            /\ duper.generators[i].kind = find_best_generator(duper.frame[i], <<1, 20>>)
            /\ duper.generators[i].dtype = duper.frame[i].dtype
  /\ (pc \in {"make_raised", "make_returned"} /\ duper.frame # <<>>) =>
       /\ pc = "make_returned"
       /\ Len(duper.returned) = Len(duper.frame)
       /\ \A i \in DOMAIN duper.returned : Len(duper.returned[i]) = duper.size

ClassChars(regex, i) == {t.s[i] : t \in xeger(regex)}

\* C23: for training texts of one length the fitted pattern, after
\* _beautify_regex, lets through at each position exactly the characters the
\* training texts have there (also when a '-' stands beside consecutive
\* digits or letters), so every training text matches the pattern.
C23_LanguagePreserved ==
  (/\ pc = "returned"
   /\ res.fn = "Regex.from_data"
   /\ Training # {}
   /\ Cardinality({Len(x.s) : x \in Training}) = 1) =>
    /\ res.raised = "none"
    /\ ~xeger_raises(res.value)
    /\ \A i \in 1..Len((CHOOSE x \in Training : TRUE).s) :
         ClassChars(res.value, i) = {x.s[i] : x \in Training}
    /\ \A x \in Training : x \in xeger(res.value)

\* the probabilities the interpolation is compared at: 0, 1 and every
\* multiple of 1/60 between, among them the breakpoints of up to 7 values
Probabilities == {<<k, 60>> : k \in 0..60}

\* the segment of the n sorted values of the column that brackets p: the
\* last i < n whose breakpoint (i-1)/(n-1) is at most p
Segment(d, p) ==
  LET n == Cardinality(Present(d))
  IN Max({i \in 1..(n - 1) : (i - 1) * p[2] <= p[1] * (n - 1)})

\* p's share of the way from the breakpoint of the segment to the next, as
\* a numerator over p[2]
Along(d, p) == p[1] * (Cardinality(Present(d)) - 1) - (Segment(d, p) - 1) * p[2]

\* C24: for a quantile generator fitted on n >= 2 values the retained
\* breakpoints start at 0, end at 1 and increase strictly, and at every p
\* in [0,1] helper.interp over the retained breakpoints and values raises
\* nothing and gives the linear interpolation over all n sorted values at
\* the breakpoints (i-1)/(n-1).
C24_CollapseKeepsInterpolation ==
  (pc = "fitted" /\ gen.kind \in {"Numeric", "Datetime"} /\ FromData) =>
    LET m == Len(gen.bins)
        fp == [i \in DOMAIN gen.vals |-> gen.vals[i].v]
    IN /\ RatEq(gen.bins[1], <<0, 1>>)
       /\ RatEq(gen.bins[m], <<1, 1>>)
       /\ \A i \in 1..(m - 1) : RatLt(gen.bins[i], gen.bins[i + 1])
       /\ \A p \in Probabilities :
            LET i == Segment(data, p)
                lo == SortedAt(data, i)
                hi == SortedAt(data, i + 1)
            IN /\ ~interp_raises(p, gen.bins)
               /\ interp_ratio(p, gen.bins)[2] # 0
               /\ gen.kind = "Numeric" =>
                    RatEq(interp(p, gen.bins, fp),
                          <<lo * p[2] + Along(data, p) * (hi - lo), p[2]>>)
               /\ gen.kind = "Datetime" =>
                    interp_datetime(p, gen.bins, fp)
                      = lo + Trunc(Along(data, p) * (hi - lo), p[2])

\* a fit dropped a value from a run of three equal values
C24_Witness ==
  /\ pc = "fitted"
  /\ gen.kind \in {"Numeric", "Datetime"}
  /\ FromData
  /\ Len(gen.vals) < Cardinality(Present(data))

\* the fitted values of a quantile generator
FittedValues(g) == {g.vals[i].v : i \in DOMAIN g.vals}

\* C25: every value a Numeric generator's make produces, before missing
\* values are injected, lies between the smallest and the largest fitted
\* value, both included; truncation to an integer dtype and rounding to
\* the multiple of the precision keep it there, negative values included.
C25_NoExtrapolation ==
  (pc = "made" /\ gen.kind = "Numeric" /\ out.raised = "none") =>
    \A i \in DOMAIN out.raw :
      /\ Min(FittedValues(gen)) <= out.raw[i].v
      /\ out.raw[i].v <= Max(FittedValues(gen))

====
